---- MODULE Spec2Model ----
(***************************************************************************)
(* Model of app.py: the local-IP and public-IP resolvers, the              *)
(* IP-geolocation client, the index view and the POST /reverse endpoint.   *)
(* Every request is handled synchronously and no state is shared between   *)
(* requests, so the state is the request in progress: which handler ran,   *)
(* what it was given (request body and the behaviour of the sockets and    *)
(* upstream services during the call), what it returned and which          *)
(* outbound calls it made.                                                 *)
(***************************************************************************)
EXTENDS Integers, Sequences, FiniteSets, TLC

VARIABLES phase, op, args, ret, calls

vars == <<phase, op, args, ret, calls>>

(***************************************************************************)
(* Bounds of the model.                                                    *)
(***************************************************************************)
\* Coordinates sent by the browser range over -MaxCoord..MaxCoord, the
\* numbers an upstream body carries over 0..MaxCoord.
MaxCoord == 1

(***************************************************************************)
(* Python / JSON values.  A scalar is a tagged record, so that None, 0,    *)
(* "" and the other values stay distinct; a dict is a function from its    *)
(* keys to values.                                                         *)
(***************************************************************************)
None == [t |-> "NoneType", n |-> 0, s |-> ""]
Num(k) == [t |-> "number", n |-> k, s |-> ""]
Str(x) == [t |-> "str", n |-> 0, s |-> x]

EmptyDict == [k \in {} |-> None]

\* Python's truth value of a scalar: None, 0 and "" are false.
Truthy(v) == ~(v = None \/ v = Num(0) \/ v = Str(""))

\* a or b
Or(a, b) == IF Truthy(a) THEN a ELSE b

\* d.get(k) and d.get(k, default)
GetDefault(d, k, default) == IF k \in DOMAIN d THEN d[k] ELSE default
Get(d, k) == GetDefault(d, k, None)

\* All dicts over a subset of the keys ks with values in vs.
Dicts(ks, vs) == UNION {[sub -> vs] : sub \in SUBSET ks}

(***************************************************************************)
(* What an outbound requests.get() meets.  net is the transport outcome    *)
(* (a timeout or an unreachable host makes requests.get raise an exception *)
(* whose text is msg); otherwise a response arrives with an HTTP status    *)
(* and a body that is a JSON object (obj), another JSON value, or no JSON. *)
(***************************************************************************)
ExcTexts == {"", "timed out"}
Statuses == {200, 429, 500}
BodyKinds == {"object", "array", "text"}

NetFailures ==
    {[net |-> x, status |-> 0, kind |-> "none", obj |-> EmptyDict, msg |-> m] :
        x \in {"timeout", "unreachable"}, m \in ExcTexts}

Responses(objs) ==
    {[net |-> "ok", status |-> st, kind |-> "object", obj |-> o, msg |-> ""] :
        st \in Statuses, o \in objs}
    \cup
    {[net |-> "ok", status |-> st, kind |-> k, obj |-> EmptyDict, msg |-> ""] :
        st \in Statuses, k \in BodyKinds \ {"object"}}

Replies(objs) == NetFailures \cup Responses(objs)

\* requests.get(...) raises
GetRaises(reply) == reply.net # "ok"
\* r.raise_for_status() raises
StatusRaises(reply) == reply.status >= 400
\* r.json() raises
JsonRaises(reply) == reply.kind = "text"
\* x.get(...) raises AttributeError: x is not a dict
AttrRaises(reply) == reply.kind # "object"

Call(url, params, headers, timeout) ==
    [url |-> url, params |-> params, headers |-> headers, timeout |-> timeout]

(***************************************************************************)
(* Outcome of evaluating a block or a function: it returns value, or an    *)
(* exception of class exc with text msg leaves it.  All the classes that   *)
(* occur derive from Exception.                                            *)
(***************************************************************************)
Return(v) == [raised |-> FALSE, exc |-> "", msg |-> "", value |-> v]
Raise(c, m) == [raised |-> TRUE, exc |-> c, msg |-> m, value |-> None]

ExcClasses ==
    {"OSError", "Timeout", "ConnectionError", "HTTPError", "JSONDecodeError",
     "AttributeError", "BadRequest"}

\* "except Exception" catches x
IsException(x) == x.raised /\ x.exc \in ExcClasses

\* The exception requests.get raises for a transport failure.
TransportError(reply) ==
    Raise(IF reply.net = "timeout" THEN "Timeout" ELSE "ConnectionError", reply.msg)

(***************************************************************************)
(* get_local_ip                                                            *)
(***************************************************************************)
NA == Str("N/A")
LocalAddrs == {"192.168.1.20", "10.0.0.5"}
DefaultAddr == "192.168.1.20"

\* What the socket layer does during one call: which of socket(), connect()
\* and getsockname() is the first to raise OSError, if any, and the address
\* getsockname() reports.  collected: whether the runtime has finalized (and
\* thereby closed) a socket object that went out of scope without close() by
\* the time the function returns; the language leaves this to the runtime.
SockEnvs ==
    {[fails |-> "socket", addr |-> DefaultAddr, collected |-> TRUE]}
    \cup
    {[fails |-> f, addr |-> DefaultAddr, collected |-> c] :
        f \in {"connect", "getsockname"}, c \in BOOLEAN}
    \cup
    {[fails |-> "nothing", addr |-> a, collected |-> TRUE] : a \in LocalAddrs}

\* Lines 83-87, the body of the try: the outcome, the sockets it created
\* and the sockets it closed with s.close().
LocalIpBody(e) ==
    IF e.fails = "socket" THEN
        [out |-> Raise("OSError", "socket"), opened |-> 0, closed |-> 0]
    ELSE IF e.fails \in {"connect", "getsockname"} THEN
        [out |-> Raise("OSError", e.fails), opened |-> 1, closed |-> 0]
    ELSE
        [out |-> Return(Str(e.addr)), opened |-> 1, closed |-> 1]

\* get_local_ip with the socket created before the try.
get_local_ip_SocketOutsideTry(e) ==
    LET b == LocalIpBody(e)
    IN  [out |-> IF IsException(b.out) /\ e.fails # "socket" THEN Return(NA) ELSE b.out,
         opened |-> b.opened,
         open |-> IF e.collected THEN 0 ELSE b.opened - b.closed]

\* out: what the function returns or raises; opened: sockets created by the
\* call; open: sockets of the call still open when it returns.
get_local_ip(e) ==
    LET b == LocalIpBody(e)
        unclosed == b.opened - b.closed
    IN  [out |-> IF IsException(b.out) THEN Return(NA) ELSE b.out,
         opened |-> b.opened,
         open |-> IF e.collected THEN 0 ELSE unclosed]

(***************************************************************************)
(* get_public_ip                                                           *)
(***************************************************************************)
IpifyUrl == "https://api.ipify.org?format=json"
IpifyTimeout == 5
PublicAddrs == {"203.0.113.7"}

IpifyObjs == Dicts({"ip"}, {None} \cup {Str(a) : a \in PublicAddrs})
IpifyReplies == Replies(IpifyObjs)

\* Lines 94-95, the body of the try.
PublicIpBody(reply) ==
    IF GetRaises(reply) THEN TransportError(reply)
    ELSE IF JsonRaises(reply) THEN Raise("JSONDecodeError", "Expecting value")
    ELSE IF AttrRaises(reply) THEN Raise("AttributeError", "no attribute 'get'")
    ELSE Return(GetDefault(reply.obj, "ip", NA))

get_public_ip(reply) ==
    LET b == PublicIpBody(reply)
    IN  [out |-> IF IsException(b) THEN Return(NA) ELSE b,
         calls |-> <<Call(IpifyUrl, EmptyDict, EmptyDict, IpifyTimeout)>>]

(***************************************************************************)
(* ip_geolocation                                                          *)
(***************************************************************************)
IpapiTimeout == 6
RecordKeys ==
    {"ip", "city", "region", "postal", "country", "latitude", "longitude", "raw"}

\* url = "https://ipapi.co/json/" if ip is None else f"https://ipapi.co/{ip}/json/"
IpapiUrl(ip) ==
    IF ip = None THEN "https://ipapi.co/json/"
    ELSE "https://ipapi.co/" \o ip.s \o "/json/"

\* Bodies of the IP-geolocation service: any subset of the four coordinate
\* keys, each null or a number, with or without the place fields; and the
\* body the service sends with an error status.
CoordKeys == {"latitude", "lat", "longitude", "lon"}
CoordVals == {None} \cup {Num(k) : k \in 0..MaxCoord}
Place ==
    [k \in {"ip", "city", "region", "postal", "country_name"} |->
        CASE k = "ip" -> Str("203.0.113.7")
          [] k = "city" -> Str("Long Beach")
          [] k = "region" -> Str("California")
          [] k = "postal" -> Str("90840")
          [] k = "country_name" -> Str("United States")]
RateLimited == [k \in {"error", "reason"} |-> Str("RateLimited")]

\* The dict holding the entries of a and of b (disjoint keys).
Merge(a, b) ==
    [k \in DOMAIN a \cup DOMAIN b |-> IF k \in DOMAIN a THEN a[k] ELSE b[k]]

IpapiObjs ==
    {Merge(c, p) : c \in Dicts(CoordKeys, CoordVals), p \in {EmptyDict, Place}}
    \cup {RateLimited}
IpapiReplies == Replies(IpapiObjs)

\* The bodies the index view is exercised with: no fields, the place fields,
\* the place fields with coordinates, and the error body.
Located ==
    Merge(Place, [k \in {"latitude", "longitude"} |->
                     IF k = "latitude" THEN Num(MaxCoord) ELSE Num(0)])
IndexIpapiReplies == Replies({EmptyDict, Place, Located, RateLimited})

\* Lines 108-117, the record built from the upstream object.
GeoRecord(data) ==
    [k \in RecordKeys |->
        CASE k = "ip" -> Get(data, "ip")
          [] k = "city" -> Get(data, "city")
          [] k = "region" -> Get(data, "region")
          [] k = "postal" -> Get(data, "postal")
          [] k = "country" -> Get(data, "country_name")
          [] k = "latitude" -> Or(Get(data, "latitude"), Get(data, "lat"))
          [] k = "longitude" -> Or(Get(data, "longitude"), Get(data, "lon"))
          [] k = "raw" -> data]

\* Lines 104-117, the body of the try.
GeoBody(reply) ==
    IF GetRaises(reply) THEN TransportError(reply)
    ELSE IF JsonRaises(reply) THEN Raise("JSONDecodeError", "Expecting value")
    ELSE IF AttrRaises(reply) THEN Raise("AttributeError", "no attribute 'get'")
    ELSE Return(GeoRecord(reply.obj))

ErrorDict(m) == [k \in {"error"} |-> Str(m)]

ip_geolocation(ip, reply) ==
    LET b == GeoBody(reply)
    IN  [out |-> IF IsException(b) THEN Return(ErrorDict(b.msg)) ELSE b,
         calls |-> <<Call(IpapiUrl(ip), EmptyDict, EmptyDict, IpapiTimeout)>>]

(***************************************************************************)
(* HTTP responses of the handlers.                                         *)
(***************************************************************************)
Response(status, body) == [status |-> status, body |-> body]

(***************************************************************************)
(* index: GET /                                                            *)
(***************************************************************************)
Note ==
    Str("IP-based geolocation typically does NOT return a precise street/building address.")

\* GeoArg passing the resolver's result on as it is.
GeoArg_Unchecked(public_ip) == public_ip

\* Line 125: the argument of ip_geolocation.
GeoArg(public_ip) == IF public_ip # NA THEN public_ip ELSE None

\* Lines 126-131.
Summary(local_ip, public_ip, ip_geo) ==
    [k \in {"local_ip", "public_ip", "ip_geolocation", "note"} |->
        CASE k = "local_ip" -> local_ip
          [] k = "public_ip" -> public_ip
          [] k = "ip_geolocation" -> ip_geo
          [] k = "note" -> Note]

\* The three lookups run in order; an exception leaving one of them leaves
\* the handler, and the later lookups are not made.
index(e, ipify, ipapi) ==
    LET local == get_local_ip(e)
        public == get_public_ip(ipify)
        geo == ip_geolocation(GeoArg(public.out.value), ipapi)
    IN  IF local.out.raised THEN
            [out |-> local.out, calls |-> <<>>,
             opened |-> local.opened, open |-> local.open]
        ELSE IF public.out.raised THEN
            [out |-> public.out, calls |-> public.calls,
             opened |-> local.opened, open |-> local.open]
        ELSE IF geo.out.raised THEN
            [out |-> geo.out, calls |-> public.calls \o geo.calls,
             opened |-> local.opened, open |-> local.open]
        ELSE
            [out |-> Return(Response(200,
                        Summary(local.out.value, public.out.value, geo.out.value))),
             calls |-> public.calls \o geo.calls,
             opened |-> local.opened, open |-> local.open]

(***************************************************************************)
(* reverse_geocode: POST /reverse                                          *)
(***************************************************************************)
NominatimUrl == "https://nominatim.openstreetmap.org/reverse"
NominatimTimeout == 10
Zoom == 18
AddressDetails == 1
UserAgent == "IP-to-Address-Demo/1.0 (+youremail@example.com)"

\* Request bodies.  kind "object": a JSON object, obj.  "array": a JSON value
\* that is neither an object nor null.  "null": the JSON literal null.
\* "invalid": a body that does not parse as JSON.  "absent": no JSON body
\* (none sent, or the content type is not JSON).  lenient: whether the
\* installed framework's get_json() answers an absent body with None rather
\* than by aborting the request with a client-error page.
ReqCoords == {None} \cup {Num(k) : k \in (-MaxCoord)..MaxCoord}
ReqObjs == Dicts({"latitude", "longitude"}, ReqCoords)
ReqBodies ==
    {[kind |-> "object", obj |-> o, lenient |-> FALSE] : o \in ReqObjs}
    \cup
    {[kind |-> k, obj |-> EmptyDict, lenient |-> FALSE] :
        k \in {"array", "null", "invalid"}}
    \cup
    {[kind |-> "absent", obj |-> EmptyDict, lenient |-> l] : l \in BOOLEAN}

\* Line 149: request.get_json().  kind says what Python value came back.
get_json(body) ==
    CASE body.kind = "object" -> Return([kind |-> "dict", obj |-> body.obj])
      [] body.kind = "array" -> Return([kind |-> "list", obj |-> EmptyDict])
      [] body.kind = "null" -> Return([kind |-> "NoneType", obj |-> EmptyDict])
      [] body.kind = "invalid" -> Raise("BadRequest", "Failed to decode JSON object")
      [] body.kind = "absent" ->
            IF body.lenient THEN Return([kind |-> "NoneType", obj |-> EmptyDict])
            ELSE Raise("BadRequest", "Did not attempt to load JSON data")

\* Bodies of the reverse-geocoding service.
Street == Str("1250 Bellflower Blvd, Long Beach, California, 90840, United States")
Address == [k \in {"road", "city"} |->
               IF k = "road" THEN Str("Bellflower Blvd") ELSE Str("Long Beach")]
NominatimObjs ==
    {EmptyDict,
     [k \in {"display_name"} |-> Street],
     [k \in {"address"} |-> Address],
     [k \in {"display_name", "address"} |->
         IF k = "display_name" THEN Street ELSE Address],
     [k \in {"error"} |-> Str("Unable to geocode")]}
NominatimReplies == Replies(NominatimObjs)

\* Lines 157-163.
ReverseParams(lat, lon) ==
    [k \in {"format", "lat", "lon", "addressdetails", "zoom"} |->
        CASE k = "format" -> Str("jsonv2")
          [] k = "lat" -> lat
          [] k = "lon" -> lon
          [] k = "addressdetails" -> Num(AddressDetails)
          [] k = "zoom" -> Num(Zoom)]

ReverseHeaders == [k \in {"User-Agent"} |-> Str(UserAgent)]

\* Lines 171-177.
ReverseRecord(lat, lon, resp) ==
    [k \in {"latitude", "longitude", "display_name", "address_details", "raw"} |->
        CASE k = "latitude" -> lat
          [] k = "longitude" -> lon
          [] k = "display_name" -> Get(resp, "display_name")
          [] k = "address_details" -> GetDefault(resp, "address", EmptyDict)
          [] k = "raw" -> resp]

\* ReverseBody without r.raise_for_status().
ReverseBody_NoStatusCheck(lat, lon, reply) ==
    IF GetRaises(reply) THEN TransportError(reply)
    ELSE IF JsonRaises(reply) THEN Raise("JSONDecodeError", "Expecting value")
    ELSE IF AttrRaises(reply) THEN Raise("AttributeError", "no attribute 'get'")
    ELSE Return(Response(200, ReverseRecord(lat, lon, reply.obj)))

\* Lines 166-177, the body of the try.
ReverseBody(lat, lon, reply) ==
    IF GetRaises(reply) THEN TransportError(reply)
    ELSE IF StatusRaises(reply) THEN Raise("HTTPError", "Server Error")
    ELSE IF JsonRaises(reply) THEN Raise("JSONDecodeError", "Expecting value")
    ELSE IF AttrRaises(reply) THEN Raise("AttributeError", "no attribute 'get'")
    ELSE Return(Response(200, ReverseRecord(lat, lon, reply.obj)))

\* Line 179.
ReverseFailed(m) == Response(500, ErrorDict("reverse geocode failed: " \o m))

\* Line 153.
CoordsRequired == Response(400, ErrorDict("latitude/longitude required"))

\* Line 152.
MissingCoords_LatOnly(lat, lon) == lat = None
MissingCoords_Falsy(lat, lon) == ~Truthy(lat) \/ ~Truthy(lon)
MissingCoords(lat, lon) == lat = None \/ lon = None

reverse_geocode(body, reply) ==
    LET data == get_json(body)
        lat == Get(data.value.obj, "latitude")
        lon == Get(data.value.obj, "longitude")
        b == ReverseBody(lat, lon, reply)
    IN  IF data.raised THEN
            [out |-> data, calls |-> <<>>]
        ELSE IF data.value.kind # "dict" THEN
            [out |-> Raise("AttributeError", "no attribute 'get'"), calls |-> <<>>]
        ELSE IF MissingCoords(lat, lon) THEN
            [out |-> Return(CoordsRequired), calls |-> <<>>]
        ELSE
            [out |-> IF IsException(b) THEN Return(ReverseFailed(b.msg)) ELSE b,
             calls |-> <<Call(NominatimUrl, ReverseParams(lat, lon),
                              ReverseHeaders, NominatimTimeout)>>]

(***************************************************************************)
(* The server: idle between requests, one handler per request.             *)
(***************************************************************************)
NoArgs == [kind |-> "none"]
NoRet == [kind |-> "none"]

Init ==
    /\ phase = "idle"
    /\ op = "none"
    /\ args = NoArgs
    /\ ret = NoRet
    /\ calls = <<>>

CallGetLocalIp ==
    /\ phase = "idle"
    /\ \E e \in SockEnvs :
        /\ args' = [sock |-> e]
        /\ ret' = get_local_ip(e)
    /\ op' = "get_local_ip"
    /\ calls' = <<>>
    /\ phase' = "done"

CallGetPublicIp ==
    /\ phase = "idle"
    /\ \E r \in IpifyReplies :
        /\ args' = [ipify |-> r]
        /\ ret' = [out |-> get_public_ip(r).out]
        /\ calls' = get_public_ip(r).calls
    /\ op' = "get_public_ip"
    /\ phase' = "done"

CallIpGeolocation ==
    /\ phase = "idle"
    /\ \E ip \in {None} \cup {Str(a) : a \in PublicAddrs}, r \in IpapiReplies :
        /\ args' = [ip |-> ip, ipapi |-> r]
        /\ ret' = [out |-> ip_geolocation(ip, r).out]
        /\ calls' = ip_geolocation(ip, r).calls
    /\ op' = "ip_geolocation"
    /\ phase' = "done"

HandleIndex ==
    /\ phase = "idle"
    /\ \E e \in SockEnvs, r1 \in IpifyReplies, r2 \in IndexIpapiReplies :
        /\ args' = [sock |-> e, ipify |-> r1, ipapi |-> r2]
        /\ ret' = [out |-> index(e, r1, r2).out,
                   opened |-> index(e, r1, r2).opened,
                   open |-> index(e, r1, r2).open]
        /\ calls' = index(e, r1, r2).calls
    /\ op' = "index"
    /\ phase' = "done"

HandleReverse ==
    /\ phase = "idle"
    /\ \E body \in ReqBodies, r \in NominatimReplies :
        /\ args' = [body |-> body, nominatim |-> r]
        /\ ret' = [out |-> reverse_geocode(body, r).out]
        /\ calls' = reverse_geocode(body, r).calls
    /\ op' = "reverse_geocode"
    /\ phase' = "done"

\* The response is sent; the server waits for the next request.  Nothing of
\* the finished request is kept.
NextRequest ==
    /\ phase = "done"
    /\ phase' = "idle"
    /\ op' = "none"
    /\ args' = NoArgs
    /\ ret' = NoRet
    /\ calls' = <<>>

Next ==
    \/ CallGetLocalIp
    \/ CallGetPublicIp
    \/ CallIpGeolocation
    \/ HandleIndex
    \/ HandleReverse
    \/ NextRequest

Spec == Init /\ [][Next]_vars

(***************************************************************************)
(* Properties.                                                             *)
(***************************************************************************)
Done(o) == phase = "done" /\ op = o

\* The upstream call failed: a timeout or network failure, an HTTP error
\* status, or a body that is not a JSON object.
UpstreamFailed(reply) ==
    reply.net # "ok" \/ reply.status >= 400 \/ reply.kind # "object"

\* C1: a POST /reverse whose JSON object body has latitude or longitude
\* missing or null is answered with status 400 and an error payload, and no
\* upstream call is made.
C1_MissingCoordRejected ==
    (/\ Done("reverse_geocode")
     /\ args.body.kind = "object"
     /\ \/ Get(args.body.obj, "latitude") = None
        \/ Get(args.body.obj, "longitude") = None)
    => /\ ~ret.out.raised
       /\ ret.out.value.status = 400
       /\ DOMAIN ret.out.value.body = {"error"}
       /\ ret.out.value.body["error"] # Str("")
       /\ calls = <<>>

\* The longitude is missing, the latitude is a number and the upstream
\* service would have answered: the request is rejected.
C1_Witness ==
    /\ Done("reverse_geocode")
    /\ args.body.kind = "object"
    /\ DOMAIN args.body.obj = {"latitude"}
    /\ args.body.obj["latitude"] = Num(1)
    /\ ~UpstreamFailed(args.nominatim)
    /\ ret.out.value.status = 400
    /\ calls = <<>>

\* Both fields are present and not null.
ValidPair ==
    /\ args.body.kind = "object"
    /\ Get(args.body.obj, "latitude") # None
    /\ Get(args.body.obj, "longitude") # None

Echoes200 ==
    /\ ~ret.out.raised
    /\ ret.out.value.status = 200
    /\ DOMAIN ret.out.value.body =
          {"latitude", "longitude", "display_name", "address_details", "raw"}
    /\ ret.out.value.body["latitude"] = args.body.obj["latitude"]
    /\ ret.out.value.body["longitude"] = args.body.obj["longitude"]

\* C2 as stated: every valid pair is answered with status 200 and a body
\* holding both input values unchanged.
C2_Original == (Done("reverse_geocode") /\ ValidPair) => Echoes200

\* C2 as amended: every valid pair, 0 included, for which the upstream call
\* succeeds is answered with status 200 and a body holding both input values
\* unchanged.
C2_ValidPairEchoed ==
    (Done("reverse_geocode") /\ ValidPair /\ ~UpstreamFailed(args.nominatim))
    => Echoes200

\* Latitude 0 and longitude -1 come back unchanged.
C2_Witness ==
    /\ Done("reverse_geocode")
    /\ ValidPair
    /\ args.body.obj["latitude"] = Num(0)
    /\ args.body.obj["longitude"] = Num(-1)
    /\ ~UpstreamFailed(args.nominatim)
    /\ ret.out.value.status = 200
    /\ ret.out.value.body["latitude"] = Num(0)
    /\ ret.out.value.body["longitude"] = Num(-1)

\* C3: when the upstream call of POST /reverse fails, the response has
\* status 500 and an error payload with a non-empty message and none of the
\* success fields.
C3_UpstreamFailure500 ==
    (Done("reverse_geocode") /\ calls # <<>> /\ UpstreamFailed(args.nominatim))
    => /\ ~ret.out.raised
       /\ ret.out.value.status = 500
       /\ DOMAIN ret.out.value.body = {"error"}
       /\ ret.out.value.body["error"].t = "str"
       /\ ret.out.value.body["error"].s # ""

\* A timeout whose exception has no text, answered with status 500.
C3_Witness ==
    /\ Done("reverse_geocode")
    /\ calls # <<>>
    /\ args.nominatim.net = "timeout"
    /\ args.nominatim.msg = ""
    /\ ret.out.value.status = 500

SuccessShape ==
    /\ ret.out.value.status = 200
    /\ DOMAIN ret.out.value.body =
          {"latitude", "longitude", "display_name", "address_details", "raw"}

ErrorShape(status) ==
    /\ ret.out.value.status = status
    /\ DOMAIN ret.out.value.body = {"error"}
    /\ ret.out.value.body["error"].t = "str"

\* C4: every response of POST /reverse, for every request body and upstream
\* outcome, is a 200 with the five success keys, a 400 with only an error
\* string or a 500 with only an error string, and no request makes the
\* handler raise.
C4_ThreeShapes ==
    Done("reverse_geocode")
    => /\ ~ret.out.raised
       /\ SuccessShape \/ ErrorShape(400) \/ ErrorShape(500)

\* C5: when the IP-geolocation lookup fails, ip_geolocation returns an object
\* whose only key is the error description.
C5_FailureOnlyError ==
    (Done("ip_geolocation") /\ UpstreamFailed(args.ipapi))
    => /\ ~ret.out.raised
       /\ DOMAIN ret.out.value = {"error"}

\* The value under the preferred key when it is present, else the value
\* under the fallback key when that is present, else null.
Preferred(data, key, fallback) ==
    IF key \in DOMAIN data THEN data[key]
    ELSE IF fallback \in DOMAIN data THEN data[fallback]
    ELSE None

\* C6: in the record ip_geolocation returns on success, longitude is the
\* upstream "longitude" whenever that key is present (0 included), else
\* "lon", else null; likewise latitude with "latitude" and "lat".
C6_PreferredKey ==
    (Done("ip_geolocation") /\ ~UpstreamFailed(args.ipapi))
    => /\ ~ret.out.raised
       /\ ret.out.value["longitude"] = Preferred(args.ipapi.obj, "longitude", "lon")
       /\ ret.out.value["latitude"] = Preferred(args.ipapi.obj, "latitude", "lat")

\* C7: get_local_ip never raises; it returns the local address, or "N/A" when
\* socket creation, connect or getsockname fails.
C7_LocalIpNeverRaises ==
    Done("get_local_ip")
    => /\ ~ret.out.raised
       /\ ret.out.value =
             IF args.sock.fails = "nothing" THEN Str(args.sock.addr) ELSE NA

\* Socket creation fails and the sentinel is returned.
C7_Witness ==
    /\ Done("get_local_ip")
    /\ args.sock.fails = "socket"
    /\ ~ret.out.raised
    /\ ret.out.value = NA

\* C8: get_public_ip never raises and returns the address field of the
\* upstream JSON body, or "N/A" on a network error, a timeout, a body that is
\* not a JSON object, or an ip field that is missing or null; never null.
C8_AddressOrSentinel ==
    Done("get_public_ip")
    => /\ ~ret.out.raised
       /\ ret.out.value # None
       /\ ret.out.value =
             IF /\ args.ipify.net = "ok"
                /\ args.ipify.kind = "object"
                /\ Get(args.ipify.obj, "ip") # None
             THEN args.ipify.obj["ip"]
             ELSE NA

\* C9: for every combination of outcomes of the three lookups, GET / renders
\* a summary holding exactly local_ip, public_ip, ip_geolocation and note,
\* nothing is raised, and the geolocation lookup is made with the resolved
\* public IP when it is available and with no IP when the resolver returned
\* the sentinel.
C9_IndexAlwaysRenders ==
    Done("index")
    => /\ ~ret.out.raised
       /\ ret.out.value.status = 200
       /\ DOMAIN ret.out.value.body =
             {"local_ip", "public_ip", "ip_geolocation", "note"}
       /\ Len(calls) = 2
       /\ calls[1].url = "https://api.ipify.org?format=json"
       /\ LET public_ip == ret.out.value.body["public_ip"]
          IN  /\ public_ip = NA => calls[2].url = "https://ipapi.co/json/"
              /\ (public_ip.t = "str" /\ public_ip # NA)
                 => calls[2].url = "https://ipapi.co/" \o public_ip.s \o "/json/"

\* All three lookups fail and the page is rendered, the geolocation lookup
\* having been made with no IP.
C9_Witness ==
    /\ Done("index")
    /\ args.sock.fails = "connect"
    /\ args.ipify.net = "unreachable"
    /\ args.ipapi.net = "timeout"
    /\ ~ret.out.raised
    /\ ret.out.value.body["local_ip"] = NA
    /\ ret.out.value.body["public_ip"] = NA
    /\ DOMAIN ret.out.value.body["ip_geolocation"] = {"error"}
    /\ calls[2].url = "https://ipapi.co/json/"

\* C10: on every path through get_local_ip no socket of the call is open when
\* it returns, and at most one socket is opened.
C10_SocketClosed ==
    Done("get_local_ip")
    => /\ ret.open = 0
       /\ ret.opened <= 1

====
